---- MODULE Spec2Model ----
(***************************************************************************)
(* State machine of the terminal assistant's session controller (ui.Ui):   *)
(* the event loop (Ui.Update) handling key events and messages, and the    *)
(* asynchronous commands it dispatches, whose closures run concurrently    *)
(* with the loop and write the same UiState.                               *)
(***************************************************************************)
EXTENDS Integers, Sequences, FiniteSets, TLC

\* Bounds of the model.
MaxCommands == 2    \* completion requests dispatched and editors launched in one run
MaxChunks == 2      \* chunks of one chat stream, the last one included
MaxPromptLen == 1   \* runes the prompt holds

ReplMode == "repl"
CliMode == "cli"
DefaultPromptMode == "default"
ExecPromptMode == "exec"
ChatPromptMode == "chat"
ConfigPromptMode == "config"
ExecEngineMode == "exec"
ChatEngineMode == "chat"

\* Keys that reach the default case; msg.String() of a rune key is the rune.
Runes == {"y", "Y", "n"}

\* strings.ToLower(msg.String()) on the keys above.
ToLower(s) == IF s = "Y" THEN "y" ELSE s

VARIABLES
    state,    \* Ui.state (UiState)
    config,   \* Ui.config
    engine,   \* Ui.engine
    history,  \* Ui.history
    prompt,   \* Ui.components.prompt
    tasks,    \* commands returned by Init/Update whose closures have not finished
    msgs,     \* messages produced by commands, not yet handled by Update
    life,     \* the program: "new", "running", "done" (tea.Quit issued), "panicked"
    count     \* requests dispatched, editors launched, and commands handed to the
              \* Runner since the last executable result was handled

vars == <<state, config, engine, history, prompt, tasks, msgs, life, count>>

\* The nil *config.Config and the nil *ai.Engine.
NilConfig == [ok |-> FALSE]
NilEngine == [ok |-> FALSE, mode |-> ExecEngineMode, pipe |-> FALSE, convo |-> FALSE]

\* A loaded configuration.
Config == [ok |-> TRUE]
\* What GetPromptModeFromString makes of the configuration's default prompt mode.
ConfigDefaults == {ExecPromptMode, ChatPromptMode}

Task(kind, q, pc) == [kind |-> kind, q |-> q, pc |-> pc, i |-> 0]
Msg(type, q, i, flag) == [type |-> type, q |-> q, i |-> i, flag |-> flag]

\* The buffer is the sequence of the texts appended to it: chunk i of request q is
\* <<q, i>>; the two fixed texts are
Welcome == <<0, 0>>
ConfigMessage == <<0, 1>>

\* ---------------------------------------------------------------- Prompt
\* The text of the prompt, and of a history entry, is kept as its length in runes:
\* the controller reads no more of it than whether it is empty.
\* The mode of the prompt only selects its icon and placeholder, which are not kept.
NewPrompt(mode) == [value |-> 0, focus |-> TRUE]
PromptSetValue(p, v) == [p EXCEPT !.value = v]
PromptFocus(p) == [p EXCEPT !.focus = TRUE]
PromptBlur(p) == [p EXCEPT !.focus = FALSE]
PromptSetMode(p, m) == p
\* Prompt.Update: a focused prompt takes a rune key; everything else leaves the text.
PromptUpdate(p, key) ==
    IF p.focus /\ key \in Runes /\ p.value < MaxPromptLen
    THEN [p EXCEPT !.value = @ + 1]
    ELSE p

\* --------------------------------------------------------------- History
NewHistory == [entries |-> <<>>, cursor |-> 0]
HistoryAdd(h, input) == [entries |-> Append(h.entries, input), cursor |-> Len(h.entries) + 1]
HistoryReset(h) == NewHistory
\* GetPrevious/GetNext return the history after the call and the recalled entry, if any.
HistoryGetPrevious(h) ==
    IF h.cursor > 0
    THEN [h |-> [h EXCEPT !.cursor = @ - 1], found |-> TRUE, val |-> h.entries[h.cursor]]
    ELSE [h |-> h, found |-> FALSE, val |-> 0]
HistoryGetNext(h) ==
    IF h.cursor + 1 < Len(h.entries)
    THEN [h |-> [h EXCEPT !.cursor = @ + 1], found |-> TRUE, val |-> h.entries[h.cursor + 2]]
    ELSE IF h.cursor + 1 = Len(h.entries)
         THEN [h |-> [h EXCEPT !.cursor = @ + 1], found |-> TRUE, val |-> 0]
         ELSE [h |-> h, found |-> FALSE, val |-> 0]

\* ---------------------------------------------------------------- Engine
\* convo: whether the engine holds messages of earlier exchanges.
NewEngine(mode) == [ok |-> TRUE, mode |-> mode, pipe |-> FALSE, convo |-> FALSE]
EngineSetPipe(e, pipe) == [e EXCEPT !.pipe = pipe]
EngineSetMode(e, mode) == [e EXCEPT !.mode = mode]
EngineReset(e) == [e EXCEPT !.convo = FALSE]
\* A completed exchange is added to the engine's conversation.
EngineAppend(e) == [e EXCEPT !.convo = TRUE]

\* engineMode := ai.ExecEngineMode; if promptMode == ChatPromptMode { ChatEngineMode }
EngineModeFor(pm) == IF pm = ChatPromptMode THEN ChatEngineMode ELSE ExecEngineMode

\* engine with `if u.state.pipe != "" { engine.SetPipe(u.state.pipe) }` applied
WithPipe(e) == IF state.pipe THEN EngineSetPipe(e, TRUE) ELSE e

\* ------------------------------------------------------------------ Init
\* NewUi(input): run mode, prompt mode and piped input come from the invocation.
RunModes == {ReplMode, CliMode}
PromptModes == {DefaultPromptMode, ExecPromptMode, ChatPromptMode}
Pipes == BOOLEAN
Init ==
    /\ \E rm \in RunModes, pm \in PromptModes, pipe \in Pipes :
        /\ state = [error |-> FALSE, runMode |-> rm, promptMode |-> pm,
                    configuring |-> FALSE, querying |-> FALSE, confirming |-> FALSE,
                    executing |-> FALSE, pipe |-> pipe, buffer |-> <<>>, command |-> 0]
        /\ prompt = NewPrompt(pm)
    /\ config = NilConfig
    /\ engine = NilEngine
    /\ history = NewHistory
    /\ tasks = {}
    /\ msgs = {}
    /\ life = "new"
    /\ count = [req |-> 0, edit |-> 0, since |-> 0]

Alive == life = "running"

\* The run may dispatch one more completion request or editor.
MayDispatch == count.req + count.edit < MaxCommands

\* The phase flags of a UiState that are set; Idle is none of them.
Phases(st) == {f \in {"configuring", "querying", "confirming", "executing"} : st[f]}


\* The program ends (tea.Quit) or dies (a nil dereference): the commands still running
\* and the messages not yet handled go with it.
Halt(how) ==
    /\ life' = how
    /\ tasks' = {}
    /\ msgs' = {}

\* Mutant of QuitIfCli: tea.Quit returned whatever the run mode.
QuitIfCli_AnyMode(ts, ms) == Halt("done")

\* tea.Quit returned in CLI mode only: `if u.state.runMode == CliMode`.
QuitIfCli(ts, ms) ==
    IF state.runMode = CliMode
    THEN Halt("done")
    ELSE /\ tasks' = ts
         /\ msgs' = ms
         /\ UNCHANGED life

\* ------------------------------------------------- asynchronous commands
\* startChatStream(input) and awaitChatStream(), batched for request q.
ChatCmds(q) == {Task("startChatStream", q, "A"), Task("awaitChatStream", q, "A")}

\* startCli(config): runs inside Init, on the loop.
startCli(def, engOk) ==
    LET pm == IF state.promptMode = DefaultPromptMode THEN def ELSE state.promptMode
    IN /\ config' = Config
       /\ IF ~engOk
          THEN /\ state' = [state EXCEPT !.promptMode = pm, !.error = TRUE]
               /\ UNCHANGED <<engine, tasks, count>>
          ELSE /\ engine' = WithPipe(NewEngine(EngineModeFor(pm)))
               /\ state' = [state EXCEPT !.promptMode = pm, !.querying = TRUE,
                                         !.confirming = FALSE, !.buffer = <<>>, !.command = 0]
               /\ count' = [count EXCEPT !.req = 1]
               /\ tasks' = IF pm = ExecPromptMode
                           THEN {Task("cliExec", 1, "A")}
                           ELSE ChatCmds(1)
       /\ life' = "running"
       /\ UNCHANGED <<history, prompt, msgs>>

\* Ui.Init: load the configuration and start the REPL, the CLI or the bootstrap flow.
UiInit(outcome, def, engOk) ==
    /\ life = "new"
    /\ CASE outcome = "fatal" ->
              /\ Halt("done")
              /\ UNCHANGED <<state, config, engine, history, prompt, count>>
         [] outcome = "missing" ->
              /\ tasks' = {Task("startConfig", 0, "A")}
              /\ life' = "running"
              /\ UNCHANGED <<state, config, engine, history, prompt, msgs, count>>
         [] outcome = "ok" /\ state.runMode = ReplMode ->
              /\ tasks' = {Task("startRepl", 0, "A")}
              /\ life' = "running"
              /\ UNCHANGED <<state, config, engine, history, prompt, msgs, count>>
         [] outcome = "ok" /\ state.runMode = CliMode -> startCli(def, engOk)

\* The closure of startRepl.
startRepl(t, def, engOk) ==
    /\ Alive
    /\ t.kind = "startRepl"
    /\ LET pm == IF state.promptMode = DefaultPromptMode THEN def ELSE state.promptMode
       IN /\ config' = Config
          /\ tasks' = tasks \ {t}
          /\ IF ~engOk
             THEN /\ state' = [state EXCEPT !.promptMode = pm]
                  /\ msgs' = msgs \cup {Msg("error", 0, 0, FALSE)}
                  /\ UNCHANGED <<engine, prompt>>
             ELSE /\ engine' = WithPipe(NewEngine(EngineModeFor(pm)))
                  /\ state' = [state EXCEPT !.promptMode = pm, !.buffer = <<Welcome>>,
                                            !.command = 0]
                  /\ prompt' = NewPrompt(pm)
                  /\ UNCHANGED msgs
    /\ UNCHANGED <<history, life, count>>

\* The closure of startConfig.
startConfig(t) ==
    /\ Alive
    /\ t.kind = "startConfig"
    /\ tasks' = tasks \ {t}
    /\ state' = [state EXCEPT !.configuring = TRUE, !.querying = FALSE, !.confirming = FALSE,
                              !.executing = FALSE, !.buffer = <<ConfigMessage>>, !.command = 0]
    /\ prompt' = NewPrompt(ConfigPromptMode)
    /\ UNCHANGED <<config, engine, history, msgs, life, count>>

\* finishConfig(key): runs inside Update, on the loop (Enter while configuring).
finishConfig(writeOk, engOk) ==
    IF ~writeOk \/ ~engOk
    THEN /\ state' = [state EXCEPT !.configuring = FALSE, !.error = TRUE]
         /\ config' = IF writeOk THEN Config ELSE config
         /\ UNCHANGED <<engine, tasks, count>>
    ELSE /\ config' = Config
         /\ engine' = WithPipe(NewEngine(ExecEngineMode))
         /\ IF state.runMode = ReplMode
            THEN /\ state' = [state EXCEPT !.configuring = FALSE]
                 /\ tasks' = tasks \cup {Task("finishConfig", 0, "A")}
                 /\ UNCHANGED count
            ELSE /\ count' = [count EXCEPT !.req = @ + 1]
                 /\ IF state.promptMode = ExecPromptMode
                    THEN /\ state' = [state EXCEPT !.configuring = FALSE, !.querying = TRUE,
                                                   !.buffer = <<>>]
                         /\ tasks' = tasks \cup {Task("cliExec", count.req + 1, "A")}
                    ELSE /\ state' = [state EXCEPT !.configuring = FALSE]
                         /\ tasks' = tasks \cup ChatCmds(count.req + 1)

\* The closure finishConfig returns in REPL mode.
finishConfigRepl(t) ==
    /\ Alive
    /\ t.kind = "finishConfig"
    /\ tasks' = tasks \ {t}
    /\ state' = [state EXCEPT !.buffer = <<>>, !.command = 0]
    /\ prompt' = NewPrompt(ExecPromptMode)
    /\ UNCHANGED <<config, engine, history, msgs, life, count>>

\* The closure of startExec, up to the call of ExecCompletion; on a nil engine the
\* call dies.
startExecBegin(t) ==
    /\ Alive
    /\ t.kind = "startExec" /\ t.pc = "A"
    /\ state' = [state EXCEPT !.querying = TRUE, !.confirming = FALSE,
                              !.buffer = <<>>, !.command = 0]
    /\ IF engine = NilEngine
       THEN Halt("panicked")
       ELSE /\ tasks' = (tasks \ {t}) \cup {[t EXCEPT !.pc = "B"]}
            /\ UNCHANGED <<msgs, life>>
    /\ UNCHANGED <<config, engine, history, prompt, count>>

\* What a closure does once ExecCompletion has returned: querying = false, and the
\* error or the output becomes the message.
ExecCompletionDone(t, outcome) ==
    /\ tasks' = tasks \ {t}
    /\ state' = [state EXCEPT !.querying = FALSE]
    /\ IF outcome = "error"
       THEN /\ msgs' = msgs \cup {Msg("error", t.q, 0, FALSE)}
            /\ UNCHANGED engine
       ELSE /\ msgs' = msgs \cup {Msg("ExecOutput", t.q, 0, outcome = "executable")}
            /\ engine' = EngineAppend(engine)
    /\ UNCHANGED <<config, history, prompt, life, count>>

ExecOutcomes == {"error", "executable", "explanation"}

\* The closure of startExec, from the return of ExecCompletion.
startExecEnd(t, outcome) ==
    /\ Alive
    /\ t.kind = "startExec" /\ t.pc = "B"
    /\ ExecCompletionDone(t, outcome)

\* The closure startCli and finishConfig return for the one-shot exec completion.
cliExec(t, outcome) ==
    /\ Alive
    /\ t.kind = "cliExec"
    /\ ExecCompletionDone(t, outcome)

\* The closure of startChatStream, up to the call of ChatStreamCompletion, which then
\* produces the stream's chunks on the engine's channel.
startChatStream(t) ==
    /\ Alive
    /\ t.kind = "startChatStream" /\ t.pc = "A"
    /\ state' = [state EXCEPT !.querying = TRUE, !.executing = FALSE,
                              !.confirming = FALSE, !.buffer = <<>>, !.command = 0]
    /\ IF engine = NilEngine
       THEN Halt("panicked")
       ELSE /\ tasks' = (tasks \ {t}) \cup {[t EXCEPT !.pc = "S"]}
            /\ UNCHANGED <<msgs, life>>
    /\ UNCHANGED <<config, engine, history, prompt, count>>

\* ChatStreamCompletion fails, before or between chunks: the closure of startChatStream
\* returns the error and no further chunk is produced.
chatStreamError(t) ==
    /\ Alive
    /\ t.kind = "startChatStream" /\ t.pc = "S"
    /\ tasks' = tasks \ {t}
    /\ msgs' = msgs \cup {Msg("error", t.q, 0, FALSE)}
    /\ UNCHANGED <<state, config, engine, history, prompt, life, count>>

\* The closure of awaitChatStream (a) receives the next chunk a stream (s) offers on
\* the channel, appends its content to the buffer and sets querying = !last.
awaitChatStream(a, s, last) ==
    /\ Alive
    /\ a.kind = "awaitChatStream"
    /\ engine # NilEngine
    /\ s.kind = "startChatStream" /\ s.pc = "S"
    /\ (s.i + 1 = MaxChunks) => last
    /\ tasks' = (tasks \ {a, s}) \cup (IF last THEN {} ELSE {[s EXCEPT !.i = @ + 1]})
    /\ state' = [state EXCEPT !.buffer = Append(@, <<s.q, s.i + 1>>), !.querying = ~last]
    /\ engine' = IF last THEN EngineAppend(engine) ELSE engine
    /\ msgs' = msgs \cup {Msg("ChatStreamOutput", s.q, s.i + 1, last)}
    /\ UNCHANGED <<config, history, prompt, life, count>>

\* u.engine.GetChannel() on a nil engine.
awaitChatStreamNil(a) ==
    /\ Alive
    /\ a.kind = "awaitChatStream"
    /\ engine = NilEngine
    /\ Halt("panicked")
    /\ UNCHANGED <<state, config, engine, history, prompt, count>>

\* tea.ExecProcess for execCommand: the loop runs the command, then the callback
\* (executing = false, command = "") builds the RunOutput.
execCommand(t, failed) ==
    /\ Alive
    /\ t.kind = "execCommand"
    /\ tasks' = tasks \ {t}
    /\ msgs' = msgs \cup {Msg("RunOutput", t.q, 0, failed)}
    /\ state' = [state EXCEPT !.executing = FALSE, !.command = 0]
    /\ UNCHANGED <<config, engine, history, prompt, life, count>>

EditOutcomes == {"editorError", "configError", "engineError", "ok"}

\* tea.ExecProcess for editSettings: the loop runs the editor, then the callback
\* reloads the configuration and constructs the engine again.
editSettings(t, outcome) ==
    /\ Alive
    /\ t.kind = "editSettings"
    /\ state' = [state EXCEPT !.executing = FALSE, !.command = 0]
    /\ CASE outcome \in {"editorError", "configError"} ->
              /\ tasks' = tasks \ {t}
              /\ msgs' = msgs \cup {Msg("RunOutput", t.q, 1, TRUE)}
              /\ UNCHANGED <<config, engine, life>>
         [] outcome = "engineError" ->
              /\ config' = Config
              /\ UNCHANGED engine
              /\ IF state.pipe
                 THEN Halt("panicked")
                 ELSE /\ tasks' = tasks \ {t}
                      /\ msgs' = msgs \cup {Msg("RunOutput", t.q, 1, TRUE)}
                      /\ UNCHANGED life
         [] outcome = "ok" ->
              /\ config' = Config
              /\ engine' = WithPipe(NewEngine(ExecEngineMode))
              /\ tasks' = tasks \ {t}
              /\ msgs' = msgs \cup {Msg("RunOutput", t.q, 1, FALSE)}
              /\ UNCHANGED life
    /\ UNCHANGED <<history, prompt, count>>

\* ------------------------------------------------- Update: tea.KeyMsg
\* case tea.KeyCtrlC
KeyCtrlC ==
    /\ Alive
    /\ Halt("done")
    /\ UNCHANGED <<state, config, engine, history, prompt, count>>

\* case tea.KeyUp, tea.KeyDown
KeyUpDown(key) ==
    /\ Alive
    /\ LET r == IF key = "up" THEN HistoryGetPrevious(history) ELSE HistoryGetNext(history)
       IN IF ~state.querying /\ ~state.confirming
          THEN /\ history' = r.h
               /\ prompt' = IF r.found THEN PromptSetValue(prompt, r.val) ELSE prompt
          ELSE UNCHANGED <<history, prompt>>
    /\ UNCHANGED <<state, config, engine, tasks, msgs, life, count>>

\* case tea.KeyTab
KeyTab ==
    /\ Alive
    /\ IF ~state.querying /\ ~state.confirming
       THEN LET pm == IF state.promptMode = ChatPromptMode
                      THEN ExecPromptMode ELSE ChatPromptMode
            IN /\ state' = [state EXCEPT !.promptMode = pm]
               /\ prompt' = PromptSetMode(prompt, pm)
               /\ IF engine = NilEngine
                  THEN /\ Halt("panicked")
                       /\ UNCHANGED engine
                  ELSE /\ engine' = EngineReset(EngineSetMode(engine, EngineModeFor(pm)))
                       /\ UNCHANGED <<tasks, msgs, life>>
       ELSE UNCHANGED <<state, prompt, engine, tasks, msgs, life>>
    /\ UNCHANGED <<config, history, count>>

\* case tea.KeyEnter
KeyEnter(writeOk, engOk) ==
    /\ Alive
    /\ IF state.configuring
       THEN /\ state.runMode = CliMode => MayDispatch
            /\ finishConfig(writeOk, engOk)
            /\ UNCHANGED <<history, prompt>>
       ELSE IF ~state.querying /\ ~state.confirming /\ prompt.value # 0
       THEN /\ MayDispatch
            /\ history' = HistoryAdd(history, prompt.value)
            /\ prompt' = PromptBlur(PromptSetValue(prompt, 0))
            /\ count' = [count EXCEPT !.req = @ + 1]
            /\ tasks' = tasks \cup (IF state.promptMode = ChatPromptMode
                                    THEN ChatCmds(count.req + 1)
                                    ELSE {Task("startExec", count.req + 1, "A")})
            /\ UNCHANGED <<state, config, engine>>
       ELSE UNCHANGED <<state, config, engine, history, prompt, tasks, count>>
    /\ UNCHANGED <<msgs, life>>

\* Mutant of KeyCtrlR: the reset also clears the recorded error.
KeyCtrlR_ClearsError ==
    /\ Alive
    /\ IF ~state.querying /\ ~state.confirming
       THEN /\ history' = HistoryReset(history)
            /\ state' = [state EXCEPT !.error = FALSE]
            /\ IF engine = NilEngine
               THEN /\ Halt("panicked")
                    /\ UNCHANGED <<engine, prompt>>
               ELSE /\ engine' = EngineReset(engine)
                    /\ prompt' = PromptSetValue(prompt, 0)
                    /\ UNCHANGED <<tasks, msgs, life>>
       ELSE UNCHANGED <<state, history, engine, prompt, tasks, msgs, life>>
    /\ UNCHANGED <<config, count>>

\* case tea.KeyCtrlR
KeyCtrlR ==
    /\ Alive
    /\ IF ~state.querying /\ ~state.confirming
       THEN /\ history' = HistoryReset(history)
            /\ IF engine = NilEngine
               THEN /\ Halt("panicked")
                    /\ UNCHANGED <<engine, prompt>>
               ELSE /\ engine' = EngineReset(engine)
                    /\ prompt' = PromptSetValue(prompt, 0)
                    /\ UNCHANGED <<tasks, msgs, life>>
       ELSE UNCHANGED <<history, engine, prompt, tasks, msgs, life>>
    /\ UNCHANGED <<state, config, count>>

\* case tea.KeyCtrlS, with the part of editSettings that runs inside Update
KeyCtrlS ==
    /\ Alive
    /\ IF ~state.querying /\ ~state.confirming /\ ~state.configuring /\ ~state.executing
       THEN /\ MayDispatch
            /\ state' = [state EXCEPT !.executing = TRUE, !.buffer = <<>>, !.command = 0,
                                      !.querying = FALSE, !.confirming = FALSE]
            /\ prompt' = PromptBlur(prompt)
            /\ count' = [count EXCEPT !.edit = @ + 1]
            /\ IF config = NilConfig
               THEN Halt("panicked")
               ELSE /\ tasks' = tasks \cup {Task("editSettings", count.edit + 1, "A")}
                    /\ UNCHANGED <<msgs, life>>
       ELSE UNCHANGED <<state, prompt, tasks, msgs, life, count>>
    /\ UNCHANGED <<config, engine, history>>

\* Mutant of KeyDefault: a confirmation leaves confirming set.
KeyDefault_StillConfirming(key) ==
    /\ Alive
    /\ IF state.confirming
       THEN IF ToLower(key) = "y"
            THEN /\ state' = [state EXCEPT !.executing = TRUE, !.buffer = <<>>,
                                           !.querying = FALSE]
                 /\ prompt' = PromptSetValue(prompt, 0)
                 /\ tasks' = tasks \cup {Task("execCommand", state.command, "A")}
                 /\ count' = [count EXCEPT !.since = @ + 1]
                 /\ UNCHANGED <<msgs, life>>
            ELSE /\ prompt' = PromptFocus(PromptSetValue(PromptUpdate(prompt, key), 0))
                 /\ UNCHANGED count
                 /\ IF state.runMode = ReplMode
                    THEN /\ state' = [state EXCEPT !.confirming = FALSE, !.executing = FALSE,
                                                   !.buffer = <<>>, !.command = 0]
                         /\ UNCHANGED <<tasks, msgs, life>>
                    ELSE /\ state' = [state EXCEPT !.confirming = FALSE, !.executing = FALSE,
                                                   !.buffer = <<>>]
                         /\ Halt("done")
       ELSE /\ prompt' = PromptUpdate(PromptFocus(prompt), key)
            /\ UNCHANGED <<state, tasks, msgs, life, count>>
    /\ UNCHANGED <<config, engine, history>>

\* default: the y/N decision while confirming (with the part of execCommand that runs
\* inside Update), typing into the prompt otherwise
KeyDefault(key) ==
    /\ Alive
    /\ IF state.confirming
       THEN IF ToLower(key) = "y"
            THEN /\ state' = [state EXCEPT !.confirming = FALSE, !.executing = TRUE,
                                           !.buffer = <<>>, !.querying = FALSE]
                 /\ prompt' = PromptSetValue(prompt, 0)
                 /\ tasks' = tasks \cup {Task("execCommand", state.command, "A")}
                 /\ count' = [count EXCEPT !.since = @ + 1]
                 /\ UNCHANGED <<msgs, life>>
            ELSE /\ prompt' = PromptFocus(PromptSetValue(PromptUpdate(prompt, key), 0))
                 /\ UNCHANGED count
                 /\ IF state.runMode = ReplMode
                    THEN /\ state' = [state EXCEPT !.confirming = FALSE, !.executing = FALSE,
                                                   !.buffer = <<>>, !.command = 0]
                         /\ UNCHANGED <<tasks, msgs, life>>
                    ELSE /\ state' = [state EXCEPT !.confirming = FALSE, !.executing = FALSE,
                                                   !.buffer = <<>>]
                         /\ Halt("done")
       ELSE /\ prompt' = PromptUpdate(PromptFocus(prompt), key)
            /\ UNCHANGED <<state, tasks, msgs, life, count>>
    /\ UNCHANGED <<config, engine, history>>

\* ------------------------------------------------- Update: messages
\* case ai.EngineExecOutput
UpdateExecOutput(m) ==
    /\ Alive
    /\ m.type = "ExecOutput"
    /\ IF m.flag
       THEN /\ state' = [state EXCEPT !.confirming = TRUE, !.command = m.q]
            /\ prompt' = PromptBlur(prompt)
            /\ count' = [count EXCEPT !.since = 0]
            /\ msgs' = msgs \ {m}
            /\ UNCHANGED <<tasks, life>>
       ELSE /\ prompt' = PromptFocus(prompt)
            /\ QuitIfCli(tasks, msgs \ {m})
            /\ UNCHANGED <<state, count>>
    /\ UNCHANGED <<config, engine, history>>

\* case ai.EngineChatStreamOutput
UpdateChatStreamOutput(m) ==
    /\ Alive
    /\ m.type = "ChatStreamOutput"
    /\ IF m.flag
       THEN /\ state' = [state EXCEPT !.buffer = <<>>]
            /\ prompt' = PromptFocus(prompt)
            /\ QuitIfCli(tasks, msgs \ {m})
       ELSE /\ tasks' = tasks \cup {[Task("awaitChatStream", m.q, "A") EXCEPT !.i = m.i]}
            /\ msgs' = msgs \ {m}
            /\ UNCHANGED <<state, prompt, life>>
    /\ UNCHANGED <<config, engine, history, count>>

\* case run.RunOutput
UpdateRunOutput(m) ==
    /\ Alive
    /\ m.type = "RunOutput"
    /\ state' = [state EXCEPT !.querying = FALSE]
    /\ prompt' = PromptFocus(prompt)
    /\ QuitIfCli(tasks, msgs \ {m})
    /\ UNCHANGED <<config, engine, history, count>>

\* case error
UpdateError(m) ==
    /\ Alive
    /\ m.type = "error"
    /\ msgs' = msgs \ {m}
    /\ state' = [state EXCEPT !.error = TRUE]
    /\ UNCHANGED <<config, engine, history, prompt, tasks, life, count>>

\* Ui.View: what is rendered, by the branch taken and the state it reads.
View ==
    IF state.error THEN <<"error">>
    ELSE IF state.configuring THEN <<"config", state.buffer, prompt>>
    ELSE IF ~state.querying /\ ~state.confirming /\ ~state.executing THEN <<"prompt", prompt>>
    ELSE IF state.promptMode = ChatPromptMode THEN <<"content", state.buffer>>
    ELSE IF state.querying THEN <<"spinner">>
    ELSE IF ~state.executing THEN <<"content", state.buffer>>
    ELSE <<"empty">>

Next ==
    \/ \E outcome \in {"ok", "missing", "fatal"}, def \in ConfigDefaults, engOk \in BOOLEAN :
           UiInit(outcome, def, engOk)
    \/ \E t \in tasks, def \in ConfigDefaults, engOk \in BOOLEAN : startRepl(t, def, engOk)
    \/ \E t \in tasks : startConfig(t)
    \/ \E t \in tasks : finishConfigRepl(t)
    \/ \E t \in tasks : startExecBegin(t)
    \/ \E t \in tasks, outcome \in ExecOutcomes : startExecEnd(t, outcome)
    \/ \E t \in tasks, outcome \in ExecOutcomes : cliExec(t, outcome)
    \/ \E t \in tasks : startChatStream(t)
    \/ \E t \in tasks : chatStreamError(t)
    \/ \E a \in tasks, s \in tasks, last \in BOOLEAN : awaitChatStream(a, s, last)
    \/ \E a \in tasks : awaitChatStreamNil(a)
    \/ \E t \in tasks, failed \in BOOLEAN : execCommand(t, failed)
    \/ \E t \in tasks, outcome \in EditOutcomes : editSettings(t, outcome)
    \/ KeyCtrlC
    \/ \E key \in {"up", "down"} : KeyUpDown(key)
    \/ KeyTab
    \/ \E writeOk \in BOOLEAN, engOk \in BOOLEAN : KeyEnter(writeOk, engOk)
    \/ KeyCtrlR
    \/ KeyCtrlS
    \/ \E key \in Runes : KeyDefault(key)
    \/ \E m \in msgs : UpdateExecOutput(m)
    \/ \E m \in msgs : UpdateChatStreamOutput(m)
    \/ \E m \in msgs : UpdateRunOutput(m)
    \/ \E m \in msgs : UpdateError(m)

Spec == Init /\ [][Next]_vars


\* ================================================================ claims

\* A completion request has been dispatched and its ExecOutput, last chat chunk or
\* error has not been handled yet.
RequestOpen ==
    \/ \E t \in tasks : t.kind \in {"startExec", "cliExec", "startChatStream"}
    \/ \E m \in msgs : \/ m.type \in {"ExecOutput", "ChatStreamOutput"}
                       \/ m.type = "error" /\ m.q > 0

\* A key with a case of its own in the switch, Ctrl-C excepted, is handled.
NamedKey ==
    \/ \E writeOk \in BOOLEAN, engOk \in BOOLEAN : KeyEnter(writeOk, engOk)
    \/ \E key \in {"up", "down"} : KeyUpDown(key)
    \/ KeyTab
    \/ KeyCtrlR
    \/ KeyCtrlS

\* C1: in every reachable state at most one of the phase flags querying, confirming,
\* executing, configuring is set.
C1_AtMostOnePhase == Cardinality(Phases(state)) <= 1

\* C2: while the program runs, the pending command is non-empty only while confirming;
\* in particular it is empty while executing after a confirmation, after a cancel and
\* after the run.
C2_CommandOnlyWhileConfirming == (Alive /\ state.command # 0) => state.confirming

\* The pending command is handed to the Runner by this step.
Launched == Task("execCommand", state.command, "A") \in tasks' /\ count'.since = count.since + 1

\* C3: while confirming, "y" or "Y" confirms (executing, the command is run)
\* and every other key except Ctrl-C, Enter included, cancels: the phase leaves
\* confirming and the pending command is cleared, without a run.
C3_AnyOtherKeyCancels ==
    (Alive /\ state.confirming) =>
        /\ \A key \in {"y", "Y"} :
               ~ ENABLED (KeyDefault(key) /\ ~(state'.executing /\ Launched))
        /\ ~ ENABLED ((KeyDefault("n") \/ NamedKey)
                      /\ ~(~state'.confirming /\ state'.command = 0 /\ count' = count))

\* C4: between two executable results the Runner is handed a command at most once,
\* whatever keys and messages follow the confirmation.
C4_RunAtMostOnce == count.since <= 1

\* C4 witness: the command was handed to the Runner and a further "y" runs nothing.
C4_Witness ==
    /\ Alive /\ count.since = 1
    /\ ENABLED (KeyDefault("y") /\ tasks' = tasks /\ count' = count)

\* C5: a Tab handled while a completion request is open leaves the phase flags, the
\* prompt mode and the engine as they are.
C5_TabWhileQuerying ==
    (Alive /\ RequestOpen /\ engine # NilEngine) =>
        ~ ENABLED (KeyTab /\ ~(state' = state /\ engine' = engine))

\* C6: in REPL mode a declined confirmation leaves the session idle, the pending
\* command and the prompt empty, the prompt focused, and the program running.
C6_DeclineRepl ==
    (Alive /\ state.runMode = ReplMode /\ state.confirming) =>
        ~ ENABLED (KeyDefault("n")
                   /\ ~(/\ Phases(state') = {}
                        /\ state'.command = 0
                        /\ prompt'.value = 0 /\ prompt'.focus
                        /\ life' = "running"))

\* C7: an executable result handled makes the phase confirming with its command
\* pending; "y" hands exactly that command to the Runner; the Runner's result handled in
\* REPL mode leaves the session idle with no command pending.
C7_ConfirmRun ==
    Alive =>
        /\ \A m \in msgs :
               (m.type = "ExecOutput" /\ m.flag) =>
                   ~ ENABLED (UpdateExecOutput(m)
                              /\ ~(Phases(state') = {"confirming"} /\ state'.command = m.q))
        /\ state.confirming => ~ ENABLED (KeyDefault("y") /\ ~Launched)
        /\ \A m \in msgs :
               (m.type = "RunOutput" /\ m.i = 0 /\ state.runMode = ReplMode) =>
                   ~ ENABLED (UpdateRunOutput(m)
                              /\ ~(Phases(state') = {} /\ state'.command = 0))

\* C8: a CLI run whose failure has been recorded does not come to rest (no command
\* running, no message pending) without Quit having been issued.
C8_CliFailureQuits ==
    (state.runMode = CliMode /\ state.error /\ tasks = {} /\ msgs = {}) => life # "running"

\* C9: a CLI run dispatches at most one completion request.
C9_CliOneRequest == state.runMode = CliMode => count.req <= 1

\* C10: a REPL run ends by Quit only on Ctrl-C or on the fatal configuration error of
\* Init; no message handled and no declined confirmation ends it.
C10_ReplQuit ==
    [][(state.runMode = ReplMode /\ life # "done" /\ life' = "done")
           => (KeyCtrlC \/ life = "new")]_vars

\* C10 witness: a REPL run handles the Runner's result and goes on.
C10_Witness ==
    /\ Alive /\ state.runMode = ReplMode
    /\ \E m \in msgs : m.type = "RunOutput" /\ ENABLED (UpdateRunOutput(m) /\ life' = "running")

\* Every completion closure has returned and every result or error has been handled.
RequestsSettled ==
    /\ \A t \in tasks : t.kind \notin {"startExec", "cliExec", "startChatStream"}
    /\ \A m \in msgs : m.type \notin {"ExecOutput", "ChatStreamOutput", "error"}

\* C11: in REPL mode, once a failure has been recorded and no completion is running or
\* unhandled, the session is not querying, no await on the chunk channel is left
\* blocked, and Enter on a non-empty prompt dispatches a new request.
C11_ReplErrorRecovers ==
    (Alive /\ state.runMode = ReplMode /\ state.error /\ RequestsSettled) =>
        /\ ~state.querying
        /\ \A t \in tasks : t.kind # "awaitChatStream"
        /\ (prompt.value # 0 /\ ~state.confirming /\ ~state.configuring /\ MayDispatch) =>
               ENABLED (\E w \in BOOLEAN, e \in BOOLEAN :
                            KeyEnter(w, e) /\ count'.req = count.req + 1)

\* C12: a recorded error is never cleared by a later step, and after every later step
\* View renders the error whatever the phase flags, the prompt mode and the buffer.
C12_ErrorSticks == [][state.error => (state'.error /\ View' = <<"error">>)]_vars

\* C12 witness: an error is recorded while a phase flag is set and the buffer is not
\* empty, and the session goes on.
C12_Witness ==
    /\ Alive /\ state.error /\ Phases(state) # {} /\ state.buffer # <<>>
    /\ View = <<"error">>

\* C13: once an error message has been recorded (the engine exists and no editor has run,
\* so the error is a failed completion's), no key other than Ctrl-C changes the phase
\* flags, the prompt mode or the history, dispatches a completion request or starts a
\* subprocess.
C13_ErrorIsTerminal ==
    (Alive /\ state.error /\ engine # NilEngine /\ count.edit = 0) =>
        ~ ENABLED ((NamedKey \/ \E key \in Runes : KeyDefault(key))
                   /\ ~(/\ Phases(state') = Phases(state)
                        /\ state'.promptMode = state.promptMode
                        /\ history' = history
                        /\ tasks' = tasks
                        /\ count' = count))

\* C14: a Tab handled while any phase flag is set (configuring, querying, confirming or
\* executing) changes neither the prompt mode nor the engine.
C14_TabOnlyWhenIdle ==
    (Alive /\ Phases(state) # {}) =>
        ~ ENABLED (KeyTab /\ ~(state'.promptMode = state.promptMode /\ engine' = engine))

\* C15: in REPL mode every outcome of the settings editor and of the reload that follows
\* (editor failure, configuration failure, engine failure, success; with or without
\* piped input) clears executing, produces a RunOutput message and leaves the program
\* running.
C15_EditSettingsReturns ==
    (Alive /\ state.runMode = ReplMode) =>
        \A t \in tasks, outcome \in EditOutcomes :
            ~ ENABLED (editSettings(t, outcome)
                       /\ ~(/\ life' = "running"
                            /\ ~state'.executing
                            /\ \E m \in msgs' \ msgs : m.type = "RunOutput"))

\* C16: Ctrl-R handled with no phase flag set empties the history (no entry, cursor 0),
\* clears the prompt and sets no flag, so that an Up right after recalls nothing; a
\* Ctrl-R handled while querying or confirming changes neither history, engine nor prompt.
C16_CtrlRResets ==
    Alive =>
        /\ Phases(state) = {} =>
               ~ ENABLED (KeyCtrlR
                          /\ ~(/\ life' = "running"
                               /\ history' = NewHistory
                               /\ ~HistoryGetPrevious(history').found
                               /\ prompt'.value = 0
                               /\ Phases(state') = {}))
        /\ (state.querying \/ state.confirming) =>
               ~ ENABLED (KeyCtrlR /\ ~(history' = history /\ engine' = engine /\ prompt' = prompt))

\* C17: in CLI mode, Enter that completes the configuration successfully starts the flow
\* startCli starts: the prompt mode resolved (a default mode replaced by a configured
\* one, another mode kept), the engine in the mode of that prompt mode, querying set,
\* and the one-shot exec completion or the chat stream dispatched accordingly.
C17_FinishConfigAsStartCli ==
    (Alive /\ state.runMode = CliMode /\ state.configuring) =>
        ~ ENABLED (KeyEnter(TRUE, TRUE)
                   /\ ~(/\ state'.promptMode \in ConfigDefaults
                        /\ state.promptMode # DefaultPromptMode
                               => state'.promptMode = state.promptMode
                        /\ engine'.mode = EngineModeFor(state'.promptMode)
                        /\ state'.querying /\ ~state'.configuring
                        /\ tasks' \ tasks =
                               IF state'.promptMode = ExecPromptMode
                               THEN {Task("cliExec", count'.req, "A")}
                               ELSE ChatCmds(count'.req)))

\* The fragments of stream q up to chunk n, in the order produced.
Fragments(q, n) == [j \in 1..n |-> <<q, j>>]

\* C18: whenever the last chunk of a chat stream is about to be handled, the buffer that
\* the handler renders holds exactly the fragments of that stream, in the order produced.
C18_RenderedIsStream ==
    Alive =>
        \A m \in msgs :
            (m.type = "ChatStreamOutput" /\ m.flag) => state.buffer = Fragments(m.q, m.i)

\* The completion requests dispatched whose result, last chunk or error has not been
\* handled yet.
OpenRequests ==
    {q \in 1..MaxCommands :
        \/ \E t \in tasks : t.q = q /\ t.kind \in {"startExec", "cliExec", "startChatStream"}
        \/ \E m \in msgs : m.q = q /\ m.type \in {"ExecOutput", "ChatStreamOutput", "error"}}

\* C19: at most one completion request is open at any time, and a request is dispatched
\* only when no phase flag is set.
C19_OneRequestOpen ==
    /\ Cardinality(OpenRequests) <= 1
    /\ (Alive /\ Phases(state) # {} /\ ~state.configuring) =>
           ~ ENABLED (\E w \in BOOLEAN, e \in BOOLEAN :
                          KeyEnter(w, e) /\ count'.req = count.req + 1)

\* A step of a closure that runs off the event loop: the startup closures, a completion
\* closure, the chunk await.
OffLoop ==
    \/ \E t \in tasks, def \in ConfigDefaults, engOk \in BOOLEAN : startRepl(t, def, engOk)
    \/ \E t \in tasks : startConfig(t) \/ finishConfigRepl(t)
    \/ \E t \in tasks : startExecBegin(t) \/ startChatStream(t) \/ chatStreamError(t)
    \/ \E t \in tasks, outcome \in ExecOutcomes : startExecEnd(t, outcome) \/ cliExec(t, outcome)
    \/ \E a \in tasks, s \in tasks, last \in BOOLEAN : awaitChatStream(a, s, last)

\* C20: no step of a closure running off the event loop writes the session: the state
\* (flags, buffer, command, prompt mode), the engine and the configuration change only
\* in steps of Init and Update.
C20_OnlyLoopWrites == [][OffLoop => UNCHANGED <<state, engine, config>>]_vars

\* C21: whenever no phase flag is set and the engine exists, the engine's mode is the
\* one of the prompt mode: a chat engine exactly when the prompt mode is chat.
C21_EngineModeAgrees ==
    (Alive /\ Phases(state) = {} /\ engine # NilEngine) =>
        (engine.mode = ChatEngineMode <=> state.promptMode = ChatPromptMode)

\* C22: in every state where the guard of the Tab or Ctrl-R case passes, or Enter would
\* dispatch a request, the engine has been constructed; where the guard of the Ctrl-S
\* case passes, the configuration has been loaded.
C22_ConstructedBeforeUse ==
    Alive =>
        /\ (~state.querying /\ ~state.confirming) => engine # NilEngine
        /\ (~state.configuring /\ ~state.querying /\ ~state.confirming /\ prompt.value # 0)
               => engine # NilEngine
        /\ (~state.querying /\ ~state.confirming /\ ~state.configuring /\ ~state.executing)
               => config # NilConfig

====
